---- MODULE Spec2Model ----
(***************************************************************************)
(* A model of go-caskdb's DiskStore: an append-only log file of records    *)
(* [timestamp:4][keySize:4][valueSize:4][key][value] and the in-memory     *)
(* KeyDir that maps each key to the offset and size of its last record.    *)
(*                                                                         *)
(* The file is a sequence of bytes.  A Go byte slice made by make([]byte,n)*)
(* and filled by a Read that may come back short is a "buffer" [b, n]: the *)
(* bytes b followed by zero bytes up to length n (b never ends in a zero,  *)
(* so two buffers are equal exactly when the Go slices are).  A Go string  *)
(* is the buffer of its bytes.                                             *)
(***************************************************************************)
EXTENDS Integers, Sequences, FiniteSets, TLC

\* ------------------------------------------------------------------ bounds
\* The file never grows beyond MaxFileLen bytes (Set is not called past it).
MaxFileLen == 28
\* At most MaxTorn writes fail after putting part of a record in the file.
MaxTorn == 1
\* SpecWide: at most MaxBigRecords records are written to the file.
MaxBigRecords == 4

\* ------------------------------------------------------------------ inputs
\* Keys "a", "b"; values "" and "xy"; two clock readings (258 = 0x0102 has
\* two non-zero bytes).
Keys == {<<97>>, <<98>>}
Values == {<< >>, <<120, 121>>}
Timestamps == {1, 258}

\* The lengths at which a write of a record of totalSize bytes may stop short:
\* nothing written; inside the timestamp, the key size, the value size; the
\* header and no more; all but the last two bytes; all but the last byte.
PartialWrites(totalSize) ==
  {0, 1, 5, 9, 12, totalSize - 2, totalSize - 1}

Min(a, b) == IF a < b THEN a ELSE b
Max(a, b) == IF a > b THEN a ELSE b

\* ------------------------------------------------------------- byte slices
RECURSIVE StripZeros(_)
StripZeros(s) ==
  IF s = << >> THEN s
  ELSE IF s[Len(s)] = 0 THEN StripZeros(SubSeq(s, 1, Len(s) - 1))
  ELSE s

\* make([]byte, n) holding bytes at its front, zero elsewhere
Buf(bytes, n) == [b |-> StripZeros(bytes), n |-> n]
\* string(s) / []byte(s) of a byte sequence
Str(bytes) == Buf(bytes, Len(bytes))
\* buf[i], 0-based
ByteAt(buf, i) == IF i < Len(buf.b) THEN buf.b[i + 1] ELSE 0
\* buf[lo:hi]
Slice(buf, lo, hi) == Buf(SubSeq(buf.b, lo + 1, Min(hi, Len(buf.b))), hi - lo)

\* ------------------------------------------------------------ record codec
headerSize == 12

\* 32-bit little-endian integer
EncodeU32(x) ==
  <<x % 256, (x \div 256) % 256, (x \div 65536) % 256, (x \div 16777216) % 256>>
DecodeU32(buf, at) ==
  ByteAt(buf, at) + 256 * ByteAt(buf, at + 1) + 65536 * ByteAt(buf, at + 2)
    + 16777216 * ByteAt(buf, at + 3)

encodeHeader(timestamp, keySize, valueSize) ==
  EncodeU32(timestamp) \o EncodeU32(keySize) \o EncodeU32(valueSize)

decodeHeader(buf) ==
  [timestamp |-> DecodeU32(buf, 0),
   keySize   |-> DecodeU32(buf, 4),
   valueSize |-> DecodeU32(buf, 8)]

encodeKV(timestamp, key, value) ==
  [totalSize |-> headerSize + Len(key) + Len(value),
   data      |-> encodeHeader(timestamp, Len(key), Len(value)) \o key \o value]

\* ok = FALSE: the sizes in the header reach past the end of the buffer and
\* the slice expression panics.
decodeKV(buf) ==
  LET h == decodeHeader(buf)
      inRange == /\ h.keySize <= buf.n - headerSize
                 /\ h.valueSize <= buf.n - headerSize - h.keySize
  IN  IF inRange
      THEN [ok |-> TRUE, timestamp |-> h.timestamp,
            key   |-> Slice(buf, headerSize, headerSize + h.keySize),
            value |-> Slice(buf, headerSize + h.keySize,
                            headerSize + h.keySize + h.valueSize)]
      ELSE [ok |-> FALSE, timestamp |-> h.timestamp,
            key |-> Str(<< >>), value |-> Str(<< >>)]

KeyEntry(timestamp, writeOffSet, totalSize) ==
  [timestamp |-> timestamp, writeOffSet |-> writeOffSet, totalSize |-> totalSize]

\* ------------------------------------------------------------------ file I/O
\* file.Read(make([]byte, n)) with the handle at offset pos: a zero-length
\* read returns (0, nil) even at end of file; otherwise the bytes that are
\* there, and io.EOF only when there are none.
FileRead(content, pos, n) ==
  LET avail == Max(Len(content) - pos, 0)
      got   == Min(n, avail)
  IN  [n   |-> got,
       eof |-> n > 0 /\ got = 0,
       buf |-> Buf(SubSeq(content, pos + 1, pos + got), n)]

\* file.Write(data) on a handle opened with O_APPEND: the bytes go to the end
\* of the file wherever the handle's offset is; written < Len(data) is a
\* write that failed after putting only part of data in the file.
\* (a handle opened without O_APPEND writes at its offset)
FileWriteAtOffset(content, pos, data, written) ==
  SubSeq(content, 1, pos) \o SubSeq(data, 1, written)
    \o SubSeq(content, pos + written + 1, Len(content))
FileWrite(content, pos, data, written) ==
  content \o SubSeq(data, 1, written)

\* ---------------------------------------------------------------- KeyDir map
EmptyKeyDir == [k \in {} |-> KeyEntry(0, 0, 0)]
Upsert(kd, k, e) == [x \in (DOMAIN kd) \cup {k} |-> IF x = k THEN e ELSE kd[x]]

\* ------------------------------------------------------------------- state
VARIABLES
  fileExists,  \* a file exists at the store's path
  disk,        \* its bytes
  status,      \* "unopened", "open", "closed", "failed" (open returned an
               \* error), "exited" (the process ended: os.Exit or a panic)
  KeyDir,      \* DiskStore.KeyDir
  writePos,    \* DiskStore.writePos
  filePos,     \* offset of the handle DiskStore.file
  lastOp,      \* the last call and how it ended
  stored,      \* history: key -> value of the last Set of it that returned
  sessKeys,    \* history: keys whose Set returned since the last open
  openLen,     \* history: length of the file at the last open
  sessBytes,   \* history: sum of totalSize of the Sets that returned since
  reopened,    \* history: the last open followed a Close that returned
  loadFault,   \* history: why the last open's scan left its loop ("none": a
               \* clean end of file or no scan, "eof": a key or value Read
               \* at the end of the file, "read": a failed Read)
  torn,        \* history: number of writes that failed part-way
  threads,     \* SpecConc: the call each concurrent caller is inside
  scan,        \* SpecLoad: the state of the scan loop of LoadKeys
  big          \* SpecWide: a store of large records, sizes in 64 KiB units

vars == <<fileExists, disk, status, KeyDir, writePos, filePos, lastOp,
          stored, sessKeys, openLen, sessBytes, reopened, loadFault, torn,
          threads, scan, big>>

histVars == <<stored, sessKeys, openLen, sessBytes, reopened, loadFault, torn>>

NoStr == Str(<< >>)

\* op: the call; key, value, timestamp: its arguments; outcome: "ok" it
\* returned, "error" it returned an error value, "exit" it ended the process
\* with os.Exit, "panic" it ended it with a run-time panic; fault: the I/O
\* failure that happened inside it ("none" when there was none, "closed" for
\* the use of a closed file, "eof" for a Read at the end of the file); hit: Get
\* found the key in KeyDir; result: the string Get returned.
Op(op, key, value, timestamp, outcome, fault, hit, result) ==
  [op |-> op, key |-> key, value |-> value, timestamp |-> timestamp,
   outcome |-> outcome, fault |-> fault, hit |-> hit, result |-> result]

Init ==
  /\ fileExists = FALSE
  /\ disk = << >>
  /\ status = "unopened"
  /\ KeyDir = EmptyKeyDir
  /\ writePos = 0
  /\ filePos = 0
  /\ lastOp = Op("none", NoStr, NoStr, 0, "ok", "none", FALSE, NoStr)
  /\ stored = EmptyKeyDir
  /\ sessKeys = {}
  /\ openLen = 0
  /\ sessBytes = 0
  /\ reopened = FALSE
  /\ loadFault = "none"
  /\ torn = 0
  /\ threads = << >>
  /\ scan = << >>
  /\ big = << >>

\* ------------------------------------------------------------------ recovery
isFileExists == fileExists

\* One pass of the scan loop of LoadKeys over the file's bytes.  s is the
\* loop's state: pos the read handle's offset, KeyDir and writePos the
\* store's fields, done the loop has left, fault why it left other than by a
\* clean end of file.  ioErr: a Read of this pass fails with an error other
\* than io.EOF.
LoadIter(content, s, ioErr) ==
  LET hr == FileRead(content, s.pos, headerSize)
      h  == decodeHeader(hr.buf)
      p1 == s.pos + hr.n
      kr == FileRead(content, p1, h.keySize)
      p2 == p1 + kr.n
      vr == FileRead(content, p2, h.valueSize)
      totalSize == headerSize + h.keySize + h.valueSize
  IN  IF hr.eof THEN [s EXCEPT !.done = TRUE]
      ELSE IF ioErr THEN [s EXCEPT !.done = TRUE, !.fault = "read"]
      ELSE IF kr.eof THEN [s EXCEPT !.done = TRUE, !.fault = "eof", !.pos = p1]
      ELSE IF vr.eof THEN [s EXCEPT !.done = TRUE, !.fault = "eof", !.pos = p2]
      ELSE [pos      |-> p2 + vr.n,
            KeyDir   |-> Upsert(s.KeyDir, kr.buf,
                                KeyEntry(h.timestamp, s.writePos, totalSize)),
            writePos |-> s.writePos + totalSize,
            done     |-> FALSE,
            fault    |-> "none"]

RECURSIVE LoadLoop(_, _, _, _)
LoadLoop(content, s, errAt, iter) ==
  IF s.done THEN s
  ELSE LoadLoop(content, LoadIter(content, s, iter = errAt), errAt, iter + 1)

\* LoadKeys on a file that os.Open could open; errAt: the pass whose Read
\* fails, -1 for none.
LoadKeys(content, errAt) ==
  LoadLoop(content,
           [pos |-> 0, KeyDir |-> EmptyKeyDir, writePos |-> 0,
            done |-> FALSE, fault |-> "none"],
           errAt, 0)

\* No more passes than bytes: every pass but the last reads at least one.
ErrPasses == -1 .. 2

\* NewDiskStore(fileName).  loadOpenErr: os.Open in LoadKeys fails;
\* errAt: see LoadKeys; openFileErr: os.OpenFile fails.
NewDiskStore(loadOpenErr, errAt, openFileErr) ==
  LET ld == IF isFileExists THEN LoadKeys(disk, errAt)
            ELSE [pos |-> 0, KeyDir |-> EmptyKeyDir, writePos |-> 0,
                  done |-> TRUE, fault |-> "none"]
  IN
  /\ status \in {"unopened", "closed", "failed", "exited"}
  /\ sessKeys' = {}
  /\ sessBytes' = 0
  /\ openLen' = Len(disk)
  /\ reopened' = (status = "closed")
  /\ filePos' = 0
  /\ UNCHANGED <<disk, stored, torn>>
  /\ IF isFileExists /\ loadOpenErr
     THEN /\ status' = "exited"
          /\ KeyDir' = EmptyKeyDir
          /\ writePos' = 0
          /\ lastOp' = Op("open", NoStr, NoStr, 0, "exit", "open", FALSE, NoStr)
          /\ loadFault' = "none"
          /\ UNCHANGED fileExists
     ELSE IF openFileErr
     THEN /\ status' = "failed"
          /\ KeyDir' = EmptyKeyDir
          /\ writePos' = 0
          /\ lastOp' = Op("open", NoStr, NoStr, 0, "error", "open", FALSE, NoStr)
          /\ loadFault' = "none"
          /\ UNCHANGED fileExists
     ELSE /\ status' = "open"
          /\ KeyDir' = ld.KeyDir
          /\ writePos' = ld.writePos
          /\ fileExists' = TRUE
          /\ loadFault' = ld.fault
          /\ lastOp' = Op("open", NoStr, NoStr, 0, "ok", ld.fault, FALSE, NoStr)

\* a call on d.file fails because Close has closed it
\* (Close leaves the file open)
isClosedNever(st) == FALSE
isClosed(st) == st = "closed"

\* ----------------------------------------------------------------------- Get
\* the decoding of the bytes Get read
GetDecode(buffer) == decodeKV(buffer)

\* Get(key).  seekErr, readErr: file.Seek, file.Read fail.
Get(key, seekErr, readErr) ==
  LET k  == Str(key)
      e  == KeyDir[k]
      rd == FileRead(disk, e.writeOffSet, e.totalSize)
      kv == GetDecode(rd.buf)
      exitOp(fault) == Op("get", k, NoStr, 0, "exit", fault, TRUE, NoStr)
  IN
  /\ status \in {"open", "closed"}
  /\ UNCHANGED <<fileExists, disk, KeyDir, writePos, stored, sessKeys,
                 openLen, sessBytes, reopened, loadFault, torn>>
  /\ IF k \notin DOMAIN KeyDir
     THEN /\ lastOp' = Op("get", k, NoStr, 0, "ok", "none", FALSE, NoStr)
          /\ UNCHANGED <<status, filePos>>
     ELSE IF isClosed(status) \/ seekErr
     THEN /\ status' = "exited"
          /\ lastOp' = exitOp(IF seekErr THEN "seek" ELSE "closed")
          /\ UNCHANGED filePos
     ELSE IF readErr \/ rd.eof
     THEN /\ status' = "exited"
          /\ lastOp' = exitOp(IF readErr THEN "read" ELSE "eof")
          /\ filePos' = e.writeOffSet
     ELSE /\ filePos' = e.writeOffSet + rd.n
          /\ IF kv.ok
             THEN /\ lastOp' = Op("get", k, NoStr, 0, "ok", "none", TRUE, kv.value)
                  /\ UNCHANGED status
             ELSE /\ lastOp' = Op("get", k, NoStr, 0, "panic", "none", TRUE, NoStr)
                  /\ status' = "exited"

\* ----------------------------------------------------------------------- Set
\* the record Set writes
\* (key and value passed in the wrong order)
SetEncodeSwapped(timestamp, key, value) == encodeKV(timestamp, value, key)
SetEncode(timestamp, key, value) == encodeKV(timestamp, key, value)
\* the entry Set puts in KeyDir and the writePos it leaves
SetEntry(timestamp, pos, totalSize) == KeyEntry(timestamp, pos, totalSize)
SetAdvance(pos, totalSize) == pos + totalSize

\* Set(key, value).  timestamp: the clock; written: the bytes file.Write put
\* in the file, fewer than the record's when it failed.
Set(key, value, timestamp, written) ==
  LET enc == SetEncode(timestamp, key, value)
      totalSize == enc.totalSize
      k == Str(key)
      n == IF isClosed(status) THEN 0 ELSE written
  IN
  /\ status \in {"open", "closed"}
  /\ written \in 0 .. totalSize
  /\ Len(disk) + totalSize <= MaxFileLen
  /\ (written \in 1 .. totalSize - 1) => torn < MaxTorn
  /\ disk' = FileWrite(disk, filePos, enc.data, n)
  /\ UNCHANGED <<fileExists, openLen, reopened, loadFault>>
  /\ IF n < totalSize
     THEN /\ status' = "exited"
          /\ lastOp' = Op("set", k, Str(value), timestamp, "exit",
                          IF isClosed(status) THEN "closed" ELSE "write",
                          FALSE, NoStr)
          /\ torn' = IF n > 0 THEN torn + 1 ELSE torn
          /\ filePos' = IF isClosed(status) THEN filePos ELSE Len(disk')
          /\ UNCHANGED <<KeyDir, writePos, stored, sessKeys, sessBytes>>
     ELSE /\ KeyDir' = Upsert(KeyDir, k, SetEntry(timestamp, writePos, totalSize))
          /\ writePos' = SetAdvance(writePos, totalSize)
          /\ filePos' = Len(disk')
          /\ lastOp' = Op("set", k, Str(value), timestamp, "ok", "none",
                          FALSE, NoStr)
          /\ stored' = Upsert(stored, k, Str(value))
          /\ sessKeys' = sessKeys \cup {k}
          /\ sessBytes' = sessBytes + totalSize
          /\ UNCHANGED <<status, torn>>

\* --------------------------------------------------------------------- Close
\* Close().  closeErr: file.Close fails (it always does on a closed file).
Close(closeErr) ==
  /\ status \in {"open", "closed"}
  /\ UNCHANGED <<fileExists, disk, KeyDir, writePos, filePos, stored,
                 sessKeys, openLen, sessBytes, reopened, loadFault, torn>>
  /\ IF isClosed(status) \/ closeErr
     THEN /\ status' = "exited"
          /\ lastOp' = Op("close", NoStr, NoStr, 0, "exit",
                          IF closeErr THEN "close" ELSE "closed", FALSE, NoStr)
     ELSE /\ status' = "closed"
          /\ lastOp' = Op("close", NoStr, NoStr, 0, "ok", "none", FALSE, NoStr)

\* ---------------------------------------------------------------------- Next
\* At most one failure is injected into a call.
OpenStep ==
  /\ \/ \E errAt \in ErrPasses : NewDiskStore(FALSE, errAt, FALSE)
     \/ NewDiskStore(TRUE, -1, FALSE)
     \/ NewDiskStore(FALSE, -1, TRUE)
  /\ UNCHANGED <<threads, scan, big>>

GetStep ==
  /\ \E key \in Keys :
       \/ Get(key, FALSE, FALSE)
       \/ Get(key, TRUE, FALSE)
       \/ Get(key, FALSE, TRUE)
  /\ UNCHANGED <<threads, scan, big>>

SetStep ==
  /\ \E key \in Keys, value \in Values, timestamp \in Timestamps :
       LET totalSize == headerSize + Len(key) + Len(value)
       IN  \E written \in PartialWrites(totalSize) \cup {totalSize} :
             Set(key, value, timestamp, written)
  /\ UNCHANGED <<threads, scan, big>>

CloseStep ==
  /\ \E closeErr \in BOOLEAN : Close(closeErr)
  /\ UNCHANGED <<threads, scan, big>>

Next == OpenStep \/ GetStep \/ SetStep \/ CloseStep

Spec == Init /\ [][Next]_vars

\* ------------------------------------------------- two concurrent callers
\* DiskStore has no lock: two goroutines that call Set and Get on one store
\* interleave at every access to the file, KeyDir and writePos.  Each
\* statement of Set and Get is one step; no I/O failure is injected.
Threads == {1, 2}

\* pc: the statement the caller is at ("idle": not inside a call); op, key,
\* outcome, hit, result: the call it is inside or, when idle, its last call;
\* timestamp, totalSize, data, entry, pos: the locals of the call; readKey:
\* the key of the record Get decoded.
Idle(op, key, outcome, hit, result, readKey) ==
  [pc |-> "idle", op |-> op, key |-> key, outcome |-> outcome, hit |-> hit,
   result |-> result, readKey |-> readKey, timestamp |-> 0, totalSize |-> 0,
   data |-> << >>, entry |-> KeyEntry(0, 0, 0), pos |-> 0]

\* a store just opened on an absent file, both callers idle
InitConc ==
  /\ fileExists = TRUE
  /\ disk = << >>
  /\ status = "open"
  /\ KeyDir = EmptyKeyDir
  /\ writePos = 0
  /\ filePos = 0
  /\ lastOp = Op("open", NoStr, NoStr, 0, "ok", "none", FALSE, NoStr)
  /\ stored = EmptyKeyDir
  /\ sessKeys = {}
  /\ openLen = 0
  /\ sessBytes = 0
  /\ reopened = FALSE
  /\ loadFault = "none"
  /\ torn = 0
  /\ threads = [t \in Threads |-> Idle("none", NoStr, "ok", FALSE, NoStr, NoStr)]
  /\ scan = << >>
  /\ big = << >>

\* bytes of the records that callers have encoded and not yet written
Pending ==
  LET p(t) == IF threads[t].pc = "set_write" THEN threads[t].totalSize ELSE 0
  IN  p(1) + p(2)

ConcFrame == UNCHANGED <<fileExists, status, lastOp, histVars, scan, big>>

\* Set: timestamp and encodeKV
ConcSetCall(t, key, value, timestamp) ==
  LET enc == SetEncode(timestamp, key, value)
  IN  /\ status = "open" /\ threads[t].pc = "idle"
      /\ Len(disk) + Pending + enc.totalSize <= MaxFileLen
      /\ threads' = [threads EXCEPT ![t] =
           [pc |-> "set_write", op |-> "set", key |-> Str(key),
            outcome |-> "none", hit |-> FALSE, result |-> NoStr,
            readKey |-> NoStr, timestamp |-> timestamp,
            totalSize |-> enc.totalSize, data |-> enc.data,
            entry |-> KeyEntry(0, 0, 0), pos |-> 0]]
      /\ UNCHANGED <<disk, KeyDir, writePos, filePos>>
      /\ ConcFrame

\* Set: d.file.Write(data)
ConcSetWrite(t) ==
  LET c == threads[t]
  IN  /\ c.pc = "set_write"
      /\ disk' = FileWrite(disk, filePos, c.data, c.totalSize)
      /\ filePos' = Len(disk')
      /\ threads' = [threads EXCEPT ![t].pc = "set_index"]
      /\ UNCHANGED <<KeyDir, writePos>>
      /\ ConcFrame

\* Set: d.KeyDir[key] = KeyEntry{..., writeOffSet: d.writePos, ...}
ConcSetIndex(t) ==
  LET c == threads[t]
  IN  /\ c.pc = "set_index"
      /\ KeyDir' = Upsert(KeyDir, c.key,
                          SetEntry(c.timestamp, writePos, c.totalSize))
      /\ threads' = [threads EXCEPT ![t].pc = "set_load"]
      /\ UNCHANGED <<disk, writePos, filePos>>
      /\ ConcFrame

\* Set: d.writePos += totalSize, the read of d.writePos
ConcSetLoad(t) ==
  /\ threads[t].pc = "set_load"
  /\ threads' = [threads EXCEPT ![t].pc = "set_store", ![t].pos = writePos]
  /\ UNCHANGED <<disk, KeyDir, writePos, filePos>>
  /\ ConcFrame

\* Set: d.writePos += totalSize, the write of d.writePos; Set returns
ConcSetStore(t) ==
  LET c == threads[t]
  IN  /\ c.pc = "set_store"
      /\ writePos' = SetAdvance(c.pos, c.totalSize)
      /\ threads' = [threads EXCEPT ![t] =
                       Idle("set", c.key, "ok", FALSE, NoStr, NoStr)]
      /\ UNCHANGED <<disk, KeyDir, filePos>>
      /\ ConcFrame

\* Get: the KeyDir lookup; a miss returns ""
ConcGetCall(t, key) ==
  LET k == Str(key)
  IN  /\ status = "open" /\ threads[t].pc = "idle"
      /\ threads' = [threads EXCEPT ![t] =
           IF k \in DOMAIN KeyDir
           THEN [pc |-> "get_seek", op |-> "get", key |-> k,
                 outcome |-> "none", hit |-> TRUE, result |-> NoStr,
                 readKey |-> NoStr, timestamp |-> 0, totalSize |-> 0,
                 data |-> << >>, entry |-> KeyDir[k], pos |-> 0]
           ELSE Idle("get", k, "ok", FALSE, NoStr, NoStr)]
      /\ UNCHANGED <<disk, KeyDir, writePos, filePos>>
      /\ ConcFrame

\* Get: d.file.Seek(writeOffset, io.SeekStart)
ConcGetSeek(t) ==
  /\ threads[t].pc = "get_seek"
  /\ filePos' = threads[t].entry.writeOffSet
  /\ threads' = [threads EXCEPT ![t].pc = "get_read"]
  /\ UNCHANGED <<disk, KeyDir, writePos>>
  /\ ConcFrame

\* Get: d.file.Read(buffer), decodeKV; Get returns (or the process ends)
ConcGetRead(t) ==
  LET c  == threads[t]
      rd == FileRead(disk, filePos, c.entry.totalSize)
      kv == GetDecode(rd.buf)
  IN  /\ c.pc = "get_read"
      /\ filePos' = filePos + rd.n
      /\ threads' = [threads EXCEPT ![t] =
           IF rd.eof THEN Idle("get", c.key, "exit", TRUE, NoStr, NoStr)
           ELSE IF kv.ok THEN Idle("get", c.key, "ok", TRUE, kv.value, kv.key)
           ELSE Idle("get", c.key, "panic", TRUE, NoStr, NoStr)]
      /\ status' = IF rd.eof \/ ~kv.ok THEN "exited" ELSE status
      /\ UNCHANGED <<disk, KeyDir, writePos>>
      /\ UNCHANGED <<fileExists, lastOp, histVars, scan, big>>

NextConc ==
  \E t \in Threads :
    \/ \E key \in Keys, value \in Values, timestamp \in Timestamps :
         ConcSetCall(t, key, value, timestamp)
    \/ ConcSetWrite(t)
    \/ ConcSetIndex(t)
    \/ ConcSetLoad(t)
    \/ ConcSetStore(t)
    \/ \E key \in Keys : ConcGetCall(t, key)
    \/ ConcGetSeek(t)
    \/ ConcGetRead(t)

SpecConc == InitConc /\ [][NextConc]_vars

\* ------------------------------------------------- recovery, pass by pass
\* The files recovery is run on: up to two complete records followed by the
\* first n bytes of another one.
LoadKeys2 == Keys \cup {<< >>}
LoadRecords ==
  {encodeKV(ts, k, v).data : ts \in Timestamps, k \in LoadKeys2, v \in Values}
LoadFiles ==
  LET tails == UNION {{SubSeq(r, 1, n) : n \in 0 .. Len(r)} : r \in LoadRecords}
      heads == {<< >>} \cup LoadRecords
  IN  {h \o t : h \in heads, t \in tails}

ScanStart ==
  [pos |-> 0, KeyDir |-> EmptyKeyDir, writePos |-> 0, done |-> FALSE,
   fault |-> "none"]

\* NewDiskStore has called LoadKeys on an existing file
InitLoad ==
  /\ fileExists = TRUE
  /\ disk \in LoadFiles
  /\ status = "unopened"
  /\ KeyDir = EmptyKeyDir
  /\ writePos = 0
  /\ filePos = 0
  /\ lastOp = Op("none", NoStr, NoStr, 0, "ok", "none", FALSE, NoStr)
  /\ stored = EmptyKeyDir
  /\ sessKeys = {}
  /\ openLen = Len(disk)
  /\ sessBytes = 0
  /\ reopened = FALSE
  /\ loadFault = "none"
  /\ torn = 0
  /\ threads = << >>
  /\ scan = ScanStart
  /\ big = << >>

\* one pass of the for loop of LoadKeys
LoadPass(ioErr) ==
  /\ status = "unopened" /\ ~scan.done
  /\ scan' = LoadIter(disk, scan, ioErr)
  /\ UNCHANGED <<fileExists, disk, status, KeyDir, writePos, filePos, lastOp,
                 histVars, threads, big>>

\* the loop has left: LoadKeys returns and NewDiskStore opens the file
LoadReturn(openFileErr) ==
  /\ status = "unopened" /\ scan.done
  /\ IF openFileErr
     THEN /\ status' = "failed"
          /\ lastOp' = Op("open", NoStr, NoStr, 0, "error", "open", FALSE, NoStr)
          /\ UNCHANGED <<KeyDir, writePos, loadFault>>
     ELSE /\ status' = "open"
          /\ KeyDir' = scan.KeyDir
          /\ writePos' = scan.writePos
          /\ loadFault' = scan.fault
          /\ lastOp' = Op("open", NoStr, NoStr, 0, "ok", scan.fault, FALSE, NoStr)
  /\ UNCHANGED <<fileExists, disk, filePos, stored, sessKeys, openLen,
                 sessBytes, reopened, torn, threads, scan, big>>

NextLoad ==
  \/ \E ioErr \in BOOLEAN : LoadPass(ioErr)
  \/ \E openFileErr \in BOOLEAN : LoadReturn(openFileErr)

SpecLoad == InitLoad /\ [][NextLoad]_vars

\* ------------------------------------------------- large files, uint32 width
\* writePos, writeOffSet and totalSize are uint32.  Here every record's size
\* is a multiple of 65536 bytes (a 1-byte key and a value that fills it up),
\* and sizes and offsets are counted in units of 65536 bytes: 2^32 bytes are
\* U32Units units, so uint32 addition of such sizes is addition modulo
\* U32Units of the unit counts.  The file's bytes are not kept, only the
\* sequence of (key, size) of its records.
U32Units == 65536
\* 64 KiB, 1 GiB, 2 GiB
BigSizes == {1, 16384, 32768}

\* d.writePos += totalSize in uint32
AdvanceU32(pos, totalSize) == (pos + totalSize) % U32Units

RECURSIVE Replay(_, _, _, _)
\* LoadKeys over the records log[i..]: the entries and writePos it leaves
Replay(log, i, kd, pos) ==
  IF i > Len(log) THEN [KeyDir |-> kd, writePos |-> pos]
  ELSE Replay(log, i + 1,
              Upsert(kd, log[i].key, KeyEntry(0, pos, log[i].size)),
              AdvanceU32(pos, log[i].size))

\* big.log: the records in the file; big.fileLen: the file's length;
\* big.at: key -> offset of its last record; big.KeyDir, big.writePos: the
\* store's fields; big.last: the last operation
InitWide ==
  /\ fileExists = FALSE
  /\ disk = << >>
  /\ status = "unopened"
  /\ KeyDir = EmptyKeyDir
  /\ writePos = 0
  /\ filePos = 0
  /\ lastOp = Op("none", NoStr, NoStr, 0, "ok", "none", FALSE, NoStr)
  /\ stored = EmptyKeyDir
  /\ sessKeys = {}
  /\ openLen = 0
  /\ sessBytes = 0
  /\ reopened = FALSE
  /\ loadFault = "none"
  /\ torn = 0
  /\ threads = << >>
  /\ scan = << >>
  /\ big = [log |-> << >>, fileLen |-> 0, at |-> EmptyKeyDir,
            KeyDir |-> EmptyKeyDir, writePos |-> 0, last |-> "open"]

WideFrame ==
  UNCHANGED <<fileExists, disk, status, KeyDir, writePos, filePos, lastOp,
              histVars, threads, scan>>

\* Set of a record of the given size that returns
WideSet(key, size) ==
  /\ Len(big.log) < MaxBigRecords
  /\ big' = [log     |-> Append(big.log, [key |-> Str(key), size |-> size]),
             fileLen |-> big.fileLen + size,
             at      |-> Upsert(big.at, Str(key), big.fileLen),
             KeyDir  |-> Upsert(big.KeyDir, Str(key),
                                SetEntry(0, big.writePos, size)),
             writePos |-> AdvanceU32(big.writePos, size),
             last     |-> "set"]
  /\ WideFrame

\* Close and NewDiskStore on the same file
WideReopen ==
  LET ld == Replay(big.log, 1, EmptyKeyDir, 0)
  IN  /\ big.log # << >>
      /\ big' = [big EXCEPT !.KeyDir = ld.KeyDir, !.writePos = ld.writePos,
                            !.last = "open"]
      /\ WideFrame

NextWide ==
  \/ \E key \in Keys, size \in BigSizes : WideSet(key, size)
  \/ WideReopen

SpecWide == InitWide /\ [][NextWide]_vars

\* =================================================================== claims
\* the last call was a Get on a store whose open met no failed Read, and it
\* met no failed Seek or Read and no closed file itself
GetRan ==
  lastOp.op = "get" /\ lastOp.fault \in {"none", "eof"} /\ loadFault # "read"

\* C1 - last-write-wins: on an open store, a Get of a key that was Set since
\* the open returns the value of the most recent Set of that key.
LastWriteWins ==
  (GetRan /\ lastOp.key \in sessKeys)
    => (lastOp.outcome = "ok" /\ lastOp.result = stored[lastOp.key])

\* C2 - persistence across reopen: after Close and a new open of the same
\* file, a Get of a key returns the value of the last Set of it made before
\* the Close.
PersistsAcrossReopen ==
  (GetRan /\ reopened /\ lastOp.key \in DOMAIN stored /\ lastOp.key \notin sessKeys)
    => (lastOp.outcome = "ok" /\ lastOp.result = stored[lastOp.key])

\* the log's bytes, read record by record from offset pos, end inside a record
RECURSIVE EndsInPartialRecord(_, _)
EndsInPartialRecord(content, pos) ==
  LET rest == Len(content) - pos
      h == decodeHeader(Str(SubSeq(content, pos + 1, pos + headerSize)))
  IN  IF rest = 0 THEN FALSE
      ELSE IF rest < headerSize THEN TRUE
      ELSE IF h.keySize > rest - headerSize THEN TRUE
      ELSE IF h.valueSize > rest - headerSize - h.keySize THEN TRUE
      ELSE EndsInPartialRecord(content, pos + headerSize + h.keySize + h.valueSize)

\* C3 - corrupted-tail rejection: an open of a file that ends in a partial
\* record returns an error, never a store.
CorruptTailRejected ==
  (lastOp.op = "open" /\ lastOp.fault # "open" /\ EndsInPartialRecord(disk, 0))
    => lastOp.outcome = "error"

\* C4 - Set is atomic with respect to failure: a Set whose write fails leaves
\* the file, KeyDir and writePos as they were and returns an error.
SetFailureAtomic ==
  [][(lastOp'.op = "set" /\ lastOp'.fault = "write")
       => /\ disk' = disk
          /\ KeyDir' = KeyDir
          /\ writePos' = writePos
          /\ lastOp'.outcome = "error"]_vars

IsPrefix(s, t) == Len(s) <= Len(t) /\ SubSeq(t, 1, Len(s)) = s

\* C5 - append-only growth: no step changes or removes a byte that is in the
\* file, and on a store opened on an empty or absent file the file's length
\* is the sum of the sizes of the records of the Sets that returned.
AppendOnlyGrowth ==
  [][/\ IsPrefix(disk, disk')
     /\ (status' \in {"open", "closed"} /\ openLen' = 0)
          => Len(disk') = sessBytes']_vars

\* C5 witness: two Sets returned on a store opened on no file, then a Get
\* read the first record.
AppendOnlyGrowthWitness ==
  /\ status = "open" /\ openLen = 0 /\ sessBytes > 2 * headerSize
  /\ sessBytes = Len(disk)
  /\ lastOp.op = "get" /\ lastOp.hit /\ filePos < Len(disk)

\* C6 - miss behaviour: a Get of a key no Set ever wrote a record for returns
\* the empty string without an error and without a Seek or Read of the file.
MissIsAbsent ==
  (lastOp.op = "get" /\ lastOp.key \notin DOMAIN stored)
    => (lastOp.outcome = "ok" /\ ~lastOp.hit /\ lastOp.result = NoStr)

\* C7 - the result of a Get that found its key differs from the result of a
\* Get that did not (the empty string).
AbsentIsDistinct ==
  (lastOp.op = "get" /\ lastOp.outcome = "ok" /\ lastOp.hit
     /\ lastOp.key \in sessKeys)
    => lastOp.result # NoStr

\* C8 - every I/O failure inside open, Get, Set and Close is returned to the
\* caller as an error value.
FailuresAreReturned ==
  lastOp.fault \in {"open", "read", "seek", "write", "close"}
    => lastOp.outcome = "error"

\* the last totalSize bytes of the file
LastBytes(n) == SubSeq(disk, Len(disk) - n + 1, Len(disk))

\* C9 - codec round trip: the record a Set of a non-empty key and value put in
\* the file has headerSize + Len(key) + Len(value) bytes and decodes to the
\* Set's timestamp, key and value.
CodecRoundTrip ==
  (lastOp.op = "set" /\ lastOp.outcome = "ok" /\ lastOp.key.n > 0
     /\ lastOp.value.n > 0)
    => LET n  == headerSize + lastOp.key.n + lastOp.value.n
           kv == decodeKV(Str(LastBytes(n)))
       IN  /\ KeyDir[lastOp.key].totalSize = n
           /\ Len(disk) >= n
           /\ kv.ok
           /\ kv.timestamp = lastOp.timestamp
           /\ kv.key = lastOp.key
           /\ kv.value = lastOp.value

\* C9 witness: a Set of a non-empty value with a two-byte timestamp returned.
CodecRoundTripWitness ==
  /\ lastOp.op = "set" /\ lastOp.outcome = "ok"
  /\ lastOp.key.n > 0 /\ lastOp.value.n > 0 /\ lastOp.timestamp > 255

\* C10 - writePos of an open store is the length of the file.
WritePosIsFileLength ==
  (status = "open" /\ loadFault # "read") => writePos = Len(disk)

\* the bytes at entry e of KeyDir are one complete record of key k with the
\* entry's size and timestamp
EntryIsRecordOf(k, e) ==
  LET kv == decodeKV(Str(SubSeq(disk, e.writeOffSet + 1,
                                e.writeOffSet + e.totalSize)))
  IN  /\ e.writeOffSet + e.totalSize <= Len(disk)
      /\ kv.ok
      /\ headerSize + kv.key.n + kv.value.n = e.totalSize
      /\ kv.key = k
      /\ kv.timestamp = e.timestamp

\* C11 - every KeyDir entry of an open store lies inside the file and covers
\* exactly one complete record of its own key with the entry's timestamp.
EntriesAreRecords ==
  (status = "open" /\ loadFault # "read")
    => \A k \in DOMAIN KeyDir : EntryIsRecordOf(k, KeyDir[k])

\* C12 - recovery is equivalent to the write path: the KeyDir and writePos
\* that an open rebuilds after a Close are those the closed store held.
RecoveryEqualsWritePath ==
  [][(status = "closed" /\ status' = "open" /\ loadFault # "read"
        /\ loadFault' # "read")
       => (KeyDir' = KeyDir /\ writePos' = writePos)]_vars

\* C13 - Closed is terminal: no method of a closed store opens it again (only
\* a new NewDiskStore gives an open store), no Set on it appends to the file
\* or changes KeyDir or writePos, and no Get on it returns a stored value.
ClosedIsTerminal ==
  [][(status = "closed" /\ lastOp'.op # "open")
       => /\ status' # "open"
          /\ disk' = disk
          /\ KeyDir' = KeyDir
          /\ writePos' = writePos
          /\ (lastOp'.op = "get" /\ lastOp'.outcome = "ok")
               => (~lastOp'.hit /\ lastOp'.result = NoStr)]_vars

\* C13 witness: a Set was called on a closed store.
ClosedIsTerminalWitness ==
  lastOp.op = "set" /\ lastOp.fault = "closed" /\ status = "exited"

\* C15 - Get has no effect on the store's logical state, and a Set that
\* returns after a Get that read the file appends its record at the end of
\* the file and indexes it at that offset.
GetHasNoEffect ==
  [][/\ lastOp'.op = "get"
          => (KeyDir' = KeyDir /\ writePos' = writePos /\ disk' = disk)
     /\ (lastOp.op = "get" /\ lastOp.hit /\ lastOp.outcome = "ok"
           /\ lastOp'.op = "set" /\ lastOp'.outcome = "ok")
          => /\ IsPrefix(disk, disk')
             /\ Len(disk') = Len(disk) + KeyDir'[lastOp'.key].totalSize
             /\ KeyDir'[lastOp'.key].writeOffSet = Len(disk)]_vars

\* what Get(k) returns from KeyDir kd and file bytes content when no Seek or
\* Read fails: outcome and string
GetResult(kd, content, k) ==
  IF k \notin DOMAIN kd THEN <<"ok", NoStr>>
  ELSE LET rd == FileRead(content, kd[k].writeOffSet, kd[k].totalSize)
           kv == GetDecode(rd.buf)
       IN  IF rd.eof THEN <<"exit", NoStr>>
           ELSE IF kv.ok THEN <<"ok", kv.value>>
           ELSE <<"panic", NoStr>>

\* C16 - a Set of k that returns changes KeyDir only at k, and Get of every
\* other key returns what it returned before.
SetChangesOnlyItsKey ==
  [][(lastOp'.op = "set" /\ lastOp'.outcome = "ok" /\ loadFault # "read")
       => \A k2 \in ((DOMAIN KeyDir) \cup (DOMAIN KeyDir') \cup {Str(k) : k \in Keys})
                      \ {lastOp'.key} :
            /\ (k2 \in DOMAIN KeyDir) = (k2 \in DOMAIN KeyDir')
            /\ k2 \in DOMAIN KeyDir => KeyDir'[k2] = KeyDir[k2]
            /\ GetResult(KeyDir', disk', k2) = GetResult(KeyDir, disk, k2)]_vars

\* C14 - two concurrent callers see no torn state: every KeyDir entry covers
\* a complete record of its own key inside the file, and every Get that found
\* its key returned the value of a record of that key.
NoTornState ==
  /\ \A k \in DOMAIN KeyDir : EntryIsRecordOf(k, KeyDir[k])
  /\ \A t \in Threads :
       (threads[t].pc = "idle" /\ threads[t].op = "get" /\ threads[t].hit)
         => (threads[t].outcome = "ok" /\ threads[t].readKey = threads[t].key)

\* C18 - every pass of the scan loop of LoadKeys either consumes at least
\* headerSize bytes of the file or ends the loop.
PassConsumesHeaderOrEnds ==
  [][(~scan.done /\ scan' # scan)
       => (scan'.done \/ scan'.pos - scan.pos >= headerSize)]_vars

\* C17 - the offsets do not wrap: writePos is the file's length and every
\* entry's writeOffSet is the offset of its record, also when the file is
\* longer than 2^32 - 1 bytes.
OffsetsDoNotWrap ==
  /\ big.writePos = big.fileLen
  /\ \A k \in DOMAIN big.KeyDir : big.KeyDir[k].writeOffSet = big.at[k]
====
